---- MODULE Spec2Model ----
(***************************************************************************)
(* Model of lib/rules/destructuring-assignment.js: the rule's handlers run *)
(* by the lint engine while it walks one syntax tree.  The state is the    *)
(* rule's closure state (queue of createSFCParams, contextSet, the four    *)
(* settings read in create()), the position of the traversal (the open     *)
(* ancestor nodes, each with the component registry's current answer for   *)
(* it) and the reports the last handler call sent to the sink.             *)
(***************************************************************************)
EXTENDS Integers, Sequences, FiniteSets, TLC

(* Bounds of the model. *)
MaxDepth == 2
MaxFlips == 1

(* JS undefined / false where a name is expected. *)
Absent == "<absent>"

Names == {"props", "foo"}
ThisProps == {"props", "context", "state", "refs"}
Callees == {"useContext", "useState"}
(* context.getScope().set.get('props'): no such binding, or its references.length *)
NoBinding == [bound |-> FALSE, length |-> 0]
Binding(n) == [bound |-> TRUE, length |-> n]
RefCounts == {1, 2, 3}

(* ---- syntax-tree nodes handed to the handlers ---- *)
Identifier(n) == [type |-> "Identifier", name |-> n]
ObjectPattern == [type |-> "ObjectPattern", name |-> Absent]
RestElement == [type |-> "RestElement", name |-> Absent]
ParamNodes == {Identifier(n) : n \in Names} \cup {ObjectPattern, RestElement}
(* every list of at most two parameters; params[2] and later are never read *)
ParamLists ==
  {<<>>} \cup {<<a>> : a \in ParamNodes} \cup {<<a, b>> : a, b \in ParamNodes}
(* the parameter lists of the functions around the member accesses and declarators:
   no parameter, a destructured or a named first one, and a named or a destructured
   second one after a first one of either name *)
SFCParamLists ==
  {<<>>, <<ObjectPattern>>, <<Identifier("props")>>,
   <<Identifier("props"), Identifier("foo")>>, <<Identifier("foo"), Identifier("props")>>,
   <<Identifier("foo"), ObjectPattern>>}

(* node.object of a member access / node.init of a declarator;
   objectType is the type of the expression's own object, when it is a member access *)
Expr(t, n, o, p, c) == [type |-> t, name |-> n, objectType |-> o, property |-> p, callee |-> c]
IdentExpr(n) == Expr("Identifier", n, Absent, Absent, Absent)
ThisMember(p) == Expr("MemberExpression", Absent, "ThisExpression", p, Absent)
OtherMember(p) == Expr("MemberExpression", Absent, "Identifier", p, Absent)
CallExpr(c) == Expr("CallExpression", Absent, Absent, Absent, c)
NoInit == Expr(Absent, Absent, Absent, Absent, Absent)

MemberObjects ==
  {IdentExpr(n) : n \in Names} \cup {ThisMember(p) : p \in ThisProps}
  \cup {OtherMember("props")}
MemberNodes == [object : MemberObjects, lhs : BOOLEAN]

DeclIds == {Identifier("foo"), ObjectPattern}
DeclInits ==
  {NoInit} \cup {IdentExpr(n) : n \in Names} \cup {CallExpr(c) : c \in Callees}
  \cup {ThisMember(p) : p \in ThisProps} \cup {OtherMember("props")}
(* the initialisers tried under a plain identifier, of which only the call is read *)
IdentifierInits == {NoInit, IdentExpr("props")} \cup {CallExpr(c) : c \in Callees}
(* a declarator's parent is its declaration statement *)
DeclNodes ==
  {d \in [id : DeclIds, init : DeclInits, parentType : {"VariableDeclaration"}] :
     d.id.type = "Identifier" => d.init \in IdentifierInits}

(* where a report points *)
NodeRef(i) == [id |-> i, part |-> "node"]
ParamRef(i, k) == [id |-> i, part |-> "param", index |-> k]
(* node.id and node.parent of the declarator at ref *)
IdOf(ref) == [id |-> ref.id, part |-> "id"]
ParentOf(ref) == [id |-> ref.id, part |-> "parent"]

(* SFCComponent.node.params[0]: absent, or the parameter of function fn with its
   name and whether it has a type annotation *)
NoParam == [present |-> FALSE, fn |-> 0, name |-> Absent, typeAnnotation |-> FALSE]
Param(fn, pnode, typed) ==
  [present |-> TRUE, fn |-> fn, name |-> pnode.name, typeAnnotation |-> typed]
(* offsets into the source text: param.range[0], param.range[1] and
   param.typeAnnotation.range[0] *)
RangeStart(param) == [fn |-> param.fn, at |-> "param.range[0]"]
RangeEnd(param) == [fn |-> param.fn, at |-> "param.range[1]"]
TypeAnnotationStart(param) == [fn |-> param.fn, at |-> "param.typeAnnotation.range[0]"]
NoRange == <<[fn |-> 0, at |-> Absent], [fn |-> 0, at |-> Absent]>>
(* fixer.replaceTextRange(range, text) and fixer.remove(node); text names the node
   whose source text is inserted *)
ReplaceTextRange(range, text) ==
  [op |-> "replaceTextRange", range |-> range, text |-> text, target |-> text]
Remove(target) == [op |-> "remove", range |-> NoRange, text |-> target, target |-> target]

messages ==
  {"noDestructPropsInSFCArg", "noDestructContextInSFCArg", "noDestructAssignment",
   "useDestructAssignment", "destructureInSignature"}
NoKey == "<message>"

(* a report's fix: whether the report has one, and the edits it returns when called *)
NoFix == [attached |-> FALSE, edits |-> <<>>]
Fix(edits) == [attached |-> TRUE, edits |-> edits]

(* report(context, messages.K, 'K', {node, data: {type}}) *)
Report(key, ref, ty, fx) == [messageId |-> key, node |-> ref, type |-> ty, fix |-> fx]
(* context.report({node, message: `Must ... ${name} assignment`}) *)
RawReport(ref, name) == [messageId |-> NoKey, node |-> ref, type |-> name, fix |-> NoFix]

VARIABLES configuration, ignoreClassFields, destructureInSignature, hasHooks,
          queue, contextSet, ancestors, flips, stable, declared, ev, emitted

vars == <<configuration, ignoreClassFields, destructureInSignature, hasHooks,
          queue, contextSet, ancestors, flips, stable, declared, ev, emitted>>
options == <<configuration, ignoreClassFields, destructureInSignature, hasHooks>>

(* ---- createSFCParams ---- *)
push(q, params) == <<params>> \o q
pop(q) == IF q = <<>> THEN q ELSE Tail(q)

SlotNamed(params, k) ==
  /\ Len(params) >= k
  /\ ~params[k].destructuring
  /\ params[k].name # Absent

(* Find scanning the frames back to front: the outermost named slot wins *)
RECURSIVE FindOutermost(_, _)
FindOutermost(q, k) ==
  IF q = <<>> THEN Absent
  ELSE IF FindOutermost(Tail(q), k) # Absent THEN FindOutermost(Tail(q), k)
  ELSE IF SlotNamed(Head(q), k) THEN Head(q)[k].name
  ELSE Absent

RECURSIVE Find(_, _)
Find(q, k) ==
  IF q = <<>> THEN Absent
  ELSE IF SlotNamed(Head(q), k) THEN Head(q)[k].name
  ELSE Find(Tail(q), k)

propsName(q) == Find(q, 1)
contextName(q) == Find(q, 2)

evalParams(params) ==
  [k \in 1..Len(params) |->
     [destructuring |-> params[k].type = "ObjectPattern",
      name |-> IF params[k].type = "Identifier" THEN params[k].name ELSE Absent]]

(* ---- host capabilities ---- *)
(* components.get(n): the registry's current answer for node n *)
componentsGet(n) == n.comp
(* context.getScope(node).block for a function node is that node *)
ScopeBlock(n) == n
isAssignmentLHS(node) == node.lhs

IsScope(n) == n.type \in {"Function", "Class"}

(* ---- Entry/exit of function nodes (FunctionDeclaration, ----
   ---- ArrowFunctionExpression, FunctionExpression)        ---- *)
(* handleStatelessComponent without the test of the mode *)
handleStatelessComponentAnyMode(node, q) ==
  LET params == evalParams(node.params) IN
  IF ~componentsGet(ScopeBlock(node))
  THEN [queue |-> q, reports |-> <<>>]
  ELSE [queue |-> push(q, params),
        reports |->
          IF Len(params) >= 1 /\ params[1].destructuring /\ componentsGet(node)
          THEN <<Report("noDestructPropsInSFCArg", NodeRef(node.id), Absent, NoFix)>>
          ELSE IF Len(params) >= 2 /\ params[2].destructuring /\ componentsGet(node)
          THEN <<Report("noDestructContextInSFCArg", NodeRef(node.id), Absent, NoFix)>>
          ELSE <<>>]

handleStatelessComponent(node, q) ==
  LET params == evalParams(node.params) IN
  IF ~componentsGet(ScopeBlock(node))
  THEN [queue |-> q, reports |-> <<>>]
  ELSE [queue |-> push(q, params),
        reports |->
          IF /\ Len(params) >= 1 /\ params[1].destructuring
             /\ componentsGet(node) /\ configuration = "never"
          THEN <<Report("noDestructPropsInSFCArg", NodeRef(node.id), Absent, NoFix)>>
          ELSE IF /\ Len(params) >= 2 /\ params[2].destructuring
                  /\ componentsGet(node) /\ configuration = "never"
          THEN <<Report("noDestructContextInSFCArg", NodeRef(node.id), Absent, NoFix)>>
          ELSE <<>>]

(* an exit handler that pops whatever the registry answers *)
handleStatelessComponentExitAlways(node, q) == pop(q)

handleStatelessComponentExit(node, q) ==
  IF componentsGet(ScopeBlock(node)) THEN pop(q) ELSE q

(* ---- MemberExpression ---- *)
(* handleSFCUsage sending at most one report for a member access *)
handleSFCUsageDeduplicated(node, ref) ==
  LET pn == propsName(queue)
      cn == contextName(queue)
      isPropUsed ==
        /\ \/ (pn # Absent /\ node.object.name = pn)
           \/ (cn # Absent /\ node.object.name = cn)
        /\ ~isAssignmentLHS(node)
      isContextUsed == node.object.name \in contextSet /\ ~isAssignmentLHS(node)
  IN IF isPropUsed /\ configuration = "always"
     THEN <<Report("useDestructAssignment", ref, node.object.name, NoFix)>>
     ELSE IF isContextUsed /\ configuration = "always"
     THEN <<RawReport(ref, node.object.name)>>
     ELSE <<>>

(* handleSFCUsage without the tests of the mode *)
handleSFCUsageAnyMode(node, ref) ==
  LET pn == propsName(queue)
      cn == contextName(queue)
      isPropUsed ==
        /\ \/ (pn # Absent /\ node.object.name = pn)
           \/ (cn # Absent /\ node.object.name = cn)
        /\ ~isAssignmentLHS(node)
      isContextUsed == node.object.name \in contextSet /\ ~isAssignmentLHS(node)
  IN (IF isPropUsed
      THEN <<Report("useDestructAssignment", ref, node.object.name, NoFix)>>
      ELSE <<>>)
     \o
     (IF isContextUsed
      THEN <<RawReport(ref, node.object.name)>>
      ELSE <<>>)

handleSFCUsage(node, ref) ==
  LET pn == propsName(queue)
      cn == contextName(queue)
      isPropUsed ==
        /\ \/ (pn # Absent /\ node.object.name = pn)
           \/ (cn # Absent /\ node.object.name = cn)
        /\ ~isAssignmentLHS(node)
      isContextUsed == node.object.name \in contextSet /\ ~isAssignmentLHS(node)
  IN (IF isPropUsed /\ configuration = "always"
      THEN <<Report("useDestructAssignment", ref, node.object.name, NoFix)>>
      ELSE <<>>)
     \o
     (IF isContextUsed /\ configuration = "always"
      THEN <<RawReport(ref, node.object.name)>>
      ELSE <<>>)

(* isInClassProperty looking for the wrong node type *)
isInClassPropertyNever(anc, i) == FALSE

(* walks node.parent upwards; anc[1..i] are the ancestors still to test *)
RECURSIVE isInClassProperty(_, _)
isInClassProperty(anc, i) ==
  IF i = 0 THEN FALSE
  ELSE IF anc[i].type = "ClassProperty" THEN TRUE
  ELSE isInClassProperty(anc, i - 1)

(* handleClassUsage without the test for an assignment target *)
handleClassUsageOfTargets(node, ref) ==
  LET isPropUsed ==
        /\ node.object.type = "MemberExpression"
        /\ node.object.objectType = "ThisExpression"
        /\ node.object.property \in {"props", "context", "state"}
  IN IF /\ isPropUsed /\ configuration = "always"
        /\ ~(ignoreClassFields /\ isInClassProperty(ancestors, Len(ancestors)))
     THEN <<Report("useDestructAssignment", ref, node.object.property, NoFix)>>
     ELSE <<>>

handleClassUsage(node, ref) ==
  LET isPropUsed ==
        /\ node.object.type = "MemberExpression"
        /\ node.object.objectType = "ThisExpression"
        /\ node.object.property \in {"props", "context", "state"}
        /\ ~isAssignmentLHS(node)
  IN IF /\ isPropUsed /\ configuration = "always"
        /\ ~(ignoreClassFields /\ isInClassProperty(ancestors, Len(ancestors)))
     THEN <<Report("useDestructAssignment", ref, node.object.property, NoFix)>>
     ELSE <<>>

(* the scope-chain loop of MemberExpression: from the innermost scope outwards,
   ending at the global scope (index 0), whose block is no component *)
(* the scope lookup without its loop: only the innermost scope is tested *)
ScopeWalkInnermostOnly(anc, i) ==
  IF i = 0 THEN FALSE ELSE IsScope(anc[i]) /\ componentsGet(anc[i])

RECURSIVE ScopeWalk(_, _)
ScopeWalk(anc, i) ==
  IF i = 0 THEN FALSE
  ELSE IF IsScope(anc[i]) /\ componentsGet(anc[i]) THEN TRUE
  ELSE ScopeWalk(anc, i - 1)

(* utils.getParentComponent(node): the nearest enclosing component, of either style *)
getParentComponent(anc) == \E i \in 1..Len(anc) : componentsGet(anc[i])

(* MemberExpression calling handleSFCUsage whatever the scope lookup found *)
MemberExpressionReportsUngated(node, ref) ==
  handleSFCUsage(node, ref)
  \o
  (IF getParentComponent(ancestors) THEN handleClassUsage(node, ref) ELSE <<>>)

MemberExpressionReports(node, ref) ==
  (IF ScopeWalk(ancestors, Len(ancestors)) THEN handleSFCUsage(node, ref) ELSE <<>>)
  \o
  (IF getParentComponent(ancestors) THEN handleClassUsage(node, ref) ELSE <<>>)

(* ---- VariableDeclarator ---- *)
(* components.get(context.getScope(node).block): the innermost scope around the
   declarator; index 0 is the global scope *)
RECURSIVE InnermostScopeComp(_, _)
InnermostScopeComp(anc, i) ==
  IF i = 0 THEN FALSE
  ELSE IF IsScope(anc[i]) THEN componentsGet(anc[i])
  ELSE InnermostScopeComp(anc, i - 1)

destructuring(node) == node.init # NoInit /\ node.id.type = "ObjectPattern"
identifier(node) == node.init # NoInit /\ node.id.type = "Identifier"
(* destructuringSFC comparing with the name of the props parameter *)
destructuringSFCRenamed(node) ==
  destructuring(node) /\ node.init.type = "Identifier" /\ node.init.name = propsName(queue)

destructuringSFC(node) == destructuring(node) /\ node.init.name = "props"
destructuringUseContext(node) ==
  hasHooks /\ destructuring(node) /\ node.init.callee = "useContext"
(* assignUseContext without the test of the framework version *)
assignUseContextAnyVersion(node) ==
  identifier(node) /\ node.init.callee = "useContext"

assignUseContext(node) ==
  hasHooks /\ identifier(node) /\ node.init.callee = "useContext"
destructuringClass(node) ==
  /\ destructuring(node)
  /\ node.init.objectType = "ThisExpression"
  /\ node.init.property \in {"props", "context", "state"}

(* does the handler reach context.getScope().set.get('props') ? *)
AsksPropsRefs(node, SFCComponent) ==
  /\ SFCComponent /\ destructuringSFC(node)
  /\ configuration = "always" /\ destructureInSignature = "always"
  /\ node.init.name = "props"

(* the fix replacing the whole parameter, its type annotation included *)
SignatureFixOverAnnotation(node, ref, param) ==
  IF ~param.present THEN <<>>
  ELSE <<ReplaceTextRange(<<RangeStart(param), RangeEnd(param)>>, IdOf(ref)),
         Remove(ParentOf(ref))>>

(* fix(fixer) of the destructureInSignature report *)
SignatureFix(node, ref, param) ==
  IF ~param.present THEN <<>>
  ELSE LET replaceRange ==
             <<RangeStart(param),
               IF param.typeAnnotation THEN TypeAnnotationStart(param)
               ELSE RangeEnd(param)>>
       IN <<ReplaceTextRange(replaceRange, IdOf(ref)), Remove(ParentOf(ref))>>

(* VariableDeclarator tolerating one more reference to props *)
VariableDeclaratorReportsOffByOne(node, ref, SFCComponent, classComponent, propsRefs, param) ==
  (IF SFCComponent /\ destructuringUseContext(node) /\ configuration = "never"
   THEN <<RawReport(ref, node.init.callee)>> ELSE <<>>)
  \o
  (IF SFCComponent /\ destructuringSFC(node) /\ configuration = "never"
   THEN <<Report("noDestructAssignment", ref, node.init.name, NoFix)>> ELSE <<>>)
  \o
  (IF /\ classComponent /\ destructuringClass(node) /\ configuration = "never"
      /\ ~(ignoreClassFields /\ node.parentType \in {"ClassProperty", "PropertyDefinition"})
   THEN <<Report("noDestructAssignment", ref, node.init.property, NoFix)>> ELSE <<>>)
  \o
  (IF AsksPropsRefs(node, SFCComponent)
   THEN IF ~propsRefs.bound THEN <<>>
        ELSE IF propsRefs.length > 2 THEN <<>>
        ELSE <<Report("destructureInSignature", ref, Absent,
                      Fix(SignatureFix(node, ref, param)))>>
   ELSE <<>>)

VariableDeclaratorReports(node, ref, SFCComponent, classComponent, propsRefs, param) ==
  (IF SFCComponent /\ destructuringUseContext(node) /\ configuration = "never"
   THEN <<RawReport(ref, node.init.callee)>> ELSE <<>>)
  \o
  (IF SFCComponent /\ destructuringSFC(node) /\ configuration = "never"
   THEN <<Report("noDestructAssignment", ref, node.init.name, NoFix)>> ELSE <<>>)
  \o
  (IF /\ classComponent /\ destructuringClass(node) /\ configuration = "never"
      /\ ~(ignoreClassFields /\ node.parentType \in {"ClassProperty", "PropertyDefinition"})
   THEN <<Report("noDestructAssignment", ref, node.init.property, NoFix)>> ELSE <<>>)
  \o
  (IF AsksPropsRefs(node, SFCComponent)
   THEN IF ~propsRefs.bound THEN <<>>
        ELSE IF propsRefs.length > 1 THEN <<>>
        ELSE <<Report("destructureInSignature", ref, Absent,
                      Fix(SignatureFix(node, ref, param)))>>
   ELSE <<>>)

(* VariableDeclarator recording the identifier bound to any call *)
VariableDeclaratorContextSetAnyCall(node, SFCComponent) ==
  IF SFCComponent /\ identifier(node) /\ node.init.type = "CallExpression"
  THEN contextSet \cup {node.id.name} ELSE contextSet

(* VariableDeclarator that forgets to record the identifier *)
VariableDeclaratorContextSetForgets(node, SFCComponent) == contextSet

VariableDeclaratorContextSet(node, SFCComponent) ==
  IF SFCComponent /\ assignUseContext(node)
  THEN contextSet \cup {node.id.name} ELSE contextSet

(* ---- the traversal ---- *)
NoEvent == [kind |-> "none"]
Top == ancestors[Len(ancestors)]
NextId == Len(ancestors) + 1
(* the open scopes: a class property opens no scope of its own *)
ScopeDepth == Cardinality({i \in 1..Len(ancestors) : IsScope(ancestors[i])})
(* an open ancestor: comp is the registry's current answer for it, tracked the
   answer it gave when the node was entered *)
TreeNode(t, c) == [type |-> t, comp |-> c, tracked |-> c, params |-> <<>>]
(* an open function; params is the parameter list in the registry's record of a
   component (SFCComponent.node.params), which a function that is none does not have *)
OpenFunction(c, ps) ==
  [type |-> "Function", comp |-> c, tracked |-> c, params |-> IF c THEN ps ELSE <<>>]
FunctionNode(i, c, ps) == [id |-> i, type |-> "Function", comp |-> c, params |-> ps]

Init ==
  /\ configuration \in {"always", "never"}
  /\ ignoreClassFields \in BOOLEAN
  /\ destructureInSignature \in {"always", "ignore"}
  /\ hasHooks \in BOOLEAN
  /\ queue = <<>>
  /\ contextSet = {}
  /\ ancestors = <<>>
  /\ flips = 0
  /\ stable = TRUE
  /\ declared = {}
  /\ ev = NoEvent
  /\ emitted = <<>>

(* FunctionDeclaration / ArrowFunctionExpression / FunctionExpression, for a function
   whose parameter list is one of lists and for which the registry answers c *)
EnterFunctionFrom(lists) ==
  /\ ScopeDepth < MaxDepth
  /\ \E params \in lists, c \in BOOLEAN :
       LET node == FunctionNode(NextId, c, params)
           r == handleStatelessComponent(node, queue)
       IN /\ queue' = r.queue
          /\ emitted' = r.reports
          /\ ancestors' = Append(ancestors, OpenFunction(c, params))
          /\ ev' = [kind |-> "enter", id |-> NextId, node |-> node]
  /\ UNCHANGED <<options, contextSet, flips, stable, declared>>

EnterFunction == EnterFunctionFrom(SFCParamLists)

(* FunctionDeclaration:exit / ArrowFunctionExpression:exit / FunctionExpression:exit *)
ExitFunction ==
  /\ ancestors # <<>>
  /\ Top.type = "Function"
  /\ queue' = handleStatelessComponentExit(Top, queue)
  /\ emitted' = <<>>
  /\ ancestors' = SubSeq(ancestors, 1, Len(ancestors) - 1)
  /\ stable' = (stable /\ componentsGet(Top) = Top.tracked)
  /\ ev' = [kind |-> "exit", id |-> Len(ancestors), node |-> Top, before |-> Len(queue)]
  /\ UNCHANGED <<options, contextSet, flips, declared>>

(* nodes the rule has no handler for: they only move the traversal *)
EnterClass ==
  /\ ScopeDepth < MaxDepth
  /\ \E c \in BOOLEAN :
       ancestors' = Append(ancestors, TreeNode("Class", c))
  /\ ev' = NoEvent
  /\ emitted' = <<>>
  /\ UNCHANGED <<options, queue, contextSet, flips, stable, declared>>

EnterClassProperty ==
  /\ ancestors # <<>>
  /\ Top.type = "Class"
  /\ ancestors' = Append(ancestors, TreeNode("ClassProperty", FALSE))
  /\ ev' = NoEvent
  /\ emitted' = <<>>
  /\ UNCHANGED <<options, queue, contextSet, flips, stable, declared>>

ExitOther ==
  /\ ancestors # <<>>
  /\ Top.type \in {"Class", "ClassProperty"}
  /\ ancestors' = SubSeq(ancestors, 1, Len(ancestors) - 1)
  /\ ev' = NoEvent
  /\ emitted' = <<>>
  /\ UNCHANGED <<options, queue, contextSet, flips, stable, declared>>

(* history: the declarator just visited binds a plain identifier to a useContext(...)
   call, directly inside an open function the registry holds as a component, with
   the hook available *)
BindsContextCall(node) ==
  /\ hasHooks
  /\ node.id.type = "Identifier"
  /\ node.init.type = "CallExpression" /\ node.init.callee = "useContext"
  /\ ancestors # <<>> /\ Top.type = "Function" /\ Top.comp

MemberExpression ==
  /\ \E node \in MemberNodes :
       /\ emitted' = MemberExpressionReports(node, NodeRef(NextId))
       /\ ev' = [kind |-> "member", id |-> NextId, node |-> node]
  /\ UNCHANGED <<options, queue, contextSet, ancestors, flips, stable, declared>>

(* the answers context.getScope().set.get('props') can give in a function with these
   parameters, when the handler asks: a parameter named props is a binding *)
PropsBindings(asks, params) ==
  IF ~asks THEN {NoBinding}
  ELSE {Binding(n) : n \in RefCounts}
       \cup (IF \E k \in 1..Len(params) : params[k].name = "props"
             THEN {} ELSE {NoBinding})

VariableDeclarator ==
  /\ IF ancestors = <<>> THEN TRUE ELSE Top.type = "Function"
  /\ \E node \in DeclNodes :
       LET SFCComponent == InnermostScopeComp(ancestors, Len(ancestors))
           classComponent == getParentComponent(ancestors)
           asks == AsksPropsRefs(node, SFCComponent)
           params == IF ancestors = <<>> THEN <<>> ELSE Top.params
       IN \E propsRefs \in PropsBindings(asks, params),
             typed \in (IF asks /\ params # <<>> THEN BOOLEAN ELSE {FALSE}) :
            LET param == IF params = <<>> THEN NoParam
                         ELSE Param(Len(ancestors), params[1], typed)
            IN /\ contextSet' = VariableDeclaratorContextSet(node, SFCComponent)
               /\ declared' = IF BindsContextCall(node) THEN declared \cup {node.id.name}
                              ELSE declared
               /\ emitted' = VariableDeclaratorReports(node, NodeRef(NextId), SFCComponent,
                                                       classComponent, propsRefs, param)
               /\ ev' = [kind |-> "declarator", id |-> NextId, node |-> node,
                         propsRefs |-> propsRefs, param |-> param]
  /\ UNCHANGED <<options, queue, ancestors, flips, stable>>

Next ==
  \/ EnterFunction
  \/ ExitFunction
  \/ EnterClass
  \/ EnterClassProperty
  \/ ExitOther
  \/ MemberExpression
  \/ VariableDeclarator

(* one traversal in which the component registry keeps its answers *)
Spec == Init /\ [][Next]_vars

(* ---- the function entry/exit handlers alone, over every parameter list ---- *)
InitTraversal ==
  /\ Init
  /\ ignoreClassFields = FALSE
  /\ destructureInSignature = "ignore"
  /\ hasHooks = TRUE

EnterAnyFunction == EnterFunctionFrom(ParamLists)

NextTraversal ==
  \/ EnterAnyFunction
  \/ ExitFunction
  \/ EnterClass
  \/ EnterClassProperty
  \/ ExitOther

SpecTraversal == InitTraversal /\ [][NextTraversal]_vars

(* ---- the function entry/exit handlers under a registry that may change its ----
   ---- answer for a node while the node is open                              ---- *)
(* the component detection changes its answer for an open function or class *)
Reclassify ==
  /\ flips < MaxFlips
  /\ \E i \in 1..Len(ancestors) :
       /\ IsScope(ancestors[i])
       /\ ancestors' = [ancestors EXCEPT ![i].comp = ~ancestors[i].comp]
  /\ flips' = flips + 1
  /\ ev' = NoEvent
  /\ emitted' = <<>>
  /\ UNCHANGED <<options, queue, contextSet, stable, declared>>

NextRegistry ==
  \/ EnterFunction
  \/ ExitFunction
  \/ EnterClass
  \/ EnterClassProperty
  \/ ExitOther
  \/ Reclassify

SpecRegistry == InitTraversal /\ [][NextRegistry]_vars

(* ================= properties ================= *)
Min(S) == CHOOSE x \in S : \A y \in S : x <= y

(* the reports of the last handler call that carry message key k *)
WithKey(k) == {i \in 1..Len(emitted) : emitted[i].messageId = k}
CountKey(k) == Cardinality(WithKey(k))

(* the open functions that were classified as components when they were entered *)
TrackedOpen ==
  {i \in 1..Len(ancestors) : ancestors[i].type = "Function" /\ ancestors[i].tracked}

(* the last event is a member access with this shape *)
IsMember == ev.kind = "member"
OnIdentifier == IsMember /\ ev.node.object.type = "Identifier"
OnThisMember ==
  /\ IsMember
  /\ ev.node.object.type = "MemberExpression"
  /\ ev.node.object.objectType = "ThisExpression"
  /\ ev.node.object.property \in {"props", "context", "state"}

(* some open function (class) around the current position is held as a component *)
InFunctionComponent ==
  \E i \in 1..Len(ancestors) : ancestors[i].type = "Function" /\ ancestors[i].comp
InClassComponent ==
  \E i \in 1..Len(ancestors) : ancestors[i].type = "Class" /\ ancestors[i].comp
InClassField ==
  \E i \in 1..Len(ancestors) : ancestors[i].type = "ClassProperty"

(* C1: as long as every function exited so far got the same classifier answer at
   its exit as at its entry, the depth of the scope stack equals the number of open
   functions classified as tracked; so a function's enter and exit leave the depth
   as it was, and the stack is empty when no function is open. *)
C1_DepthIsTrackedNesting ==
  stable => Len(queue) = Cardinality(TrackedOpen)

(* an inner tracked function has just been exited, under a registry that changed an
   answer on the way, and the frame of the enclosing tracked function remains *)
C1_Witness ==
  /\ stable /\ flips > 0
  /\ ev.kind = "exit" /\ ev.node.tracked
  /\ ev.before = 2 /\ Len(queue) = 1 /\ Cardinality(TrackedOpen) = 1

(* the frames whose slot k holds a plain identifier *)
PlainFrames(k) ==
  {i \in 1..Len(queue) : Len(queue[i]) >= k /\ queue[i][k].name # Absent}
NearestName(k) ==
  IF PlainFrames(k) = {} THEN Absent ELSE queue[Min(PlainFrames(k))][k].name

(* C2: propsName() is the name in the props slot of the innermost frame whose props
   slot is a plain identifier, absent when there is none, and contextName() is the
   same over the context slot; the frame pushed for a function holds a name in a
   slot exactly when that parameter is a plain identifier, so destructuring, missing
   and other parameters never yield a name. *)
C2_NearestNamedSlot ==
  /\ propsName(queue) = NearestName(1)
  /\ contextName(queue) = NearestName(2)
  /\ (ev.kind = "enter" /\ ev.node.comp) =>
       /\ queue # <<>>
       /\ Len(queue[1]) = Len(ev.node.params)
       /\ \A k \in 1..Len(ev.node.params) :
            queue[1][k].name =
              IF ev.node.params[k].type = "Identifier" THEN ev.node.params[k].name
              ELSE Absent

(* the two queries answer from different frames: the inner frame has a destructured
   props slot and a named context slot, the outer one a named props slot *)
C2_Witness ==
  /\ Len(queue) = 2
  /\ Len(queue[1]) = 2
  /\ queue[1][1].destructuring
  /\ PlainFrames(1) = {2} /\ Min(PlainFrames(2)) = 1
  /\ propsName(queue) # contextName(queue)

(* C3: under mode always, a member access N.x that is no assignment target, has a
   tracked function-style component on its scope chain and whose N is the current
   propsName() or contextName(), gets exactly one useDestructAssignment report, at
   the member access and with type N. *)
C3_OneReportForPropsAccess ==
  ( /\ configuration = "always"
    /\ OnIdentifier /\ ~ev.node.lhs
    /\ InFunctionComponent
    /\ ev.node.object.name \in ({propsName(queue), contextName(queue)} \ {Absent}) )
  => /\ CountKey("useDestructAssignment") = 1
     /\ \A i \in WithKey("useDestructAssignment") :
          emitted[i].node = NodeRef(ev.id) /\ emitted[i].type = ev.node.object.name

(* the access sits in a nested function that is no component itself, and its object
   is the context parameter of the enclosing component *)
C3_Witness ==
  /\ configuration = "always"
  /\ OnIdentifier /\ ~ev.node.lhs
  /\ Len(ancestors) = 2 /\ ancestors[1].comp /\ ~ancestors[2].comp
  /\ ancestors[1].type = "Function" /\ ancestors[2].type = "Function"
  /\ ev.node.object.name = contextName(queue)
  /\ ev.node.object.name # propsName(queue)
  /\ CountKey("useDestructAssignment") = 1

(* C4: a member access that is an assignment target gets no report at all, in
   either mode, whatever the scope stack and the context identifier set hold. *)
C4_TargetsNeverReported ==
  (IsMember /\ ev.node.lhs) => emitted = <<>>

(* an assignment to this.props.x inside a class component under mode always *)
C4_Witness ==
  /\ configuration = "always" /\ ~ignoreClassFields
  /\ OnThisMember /\ ev.node.lhs
  /\ InClassComponent
  /\ emitted = <<>>

(* C5: under mode always, a member access on this.props, this.context or
   this.state that is no assignment target and lies inside a class-style component
   gets exactly one useDestructAssignment report with type props, context or state,
   unless ignoreClassFields is set and an ancestor of the access is a class field;
   then it gets none. *)
C5_ClassAccess ==
  ( /\ configuration = "always"
    /\ OnThisMember /\ ~ev.node.lhs
    /\ InClassComponent )
  => IF ignoreClassFields /\ InClassField
     THEN emitted = <<>>
     ELSE /\ CountKey("useDestructAssignment") = 1
          /\ Len(emitted) = 1
          /\ emitted[1].type = ev.node.object.property
          /\ emitted[1].node = NodeRef(ev.id)

(* this.state.x in a class field initializer, ignoreClassFields set: no report *)
C5_Witness ==
  /\ configuration = "always" /\ ignoreClassFields
  /\ OnThisMember /\ ~ev.node.lhs /\ ev.node.object.property = "state"
  /\ InClassComponent /\ InClassField
  /\ emitted = <<>>

(* the last event is a declarator {...} = props directly inside an open function
   the registry holds as a component *)
IsDeclarator == ev.kind = "declarator"
DestructuresProps ==
  /\ IsDeclarator
  /\ ev.node.id.type = "ObjectPattern"
  /\ ev.node.init.type = "Identifier" /\ ev.node.init.name = "props"
DirectlyInFunctionComponent ==
  /\ ancestors # <<>>
  /\ ancestors[Len(ancestors)].type = "Function"
  /\ ancestors[Len(ancestors)].comp

(* C6: under mode always with destructureInSignature always, a declarator
   {...} = props directly inside a tracked function-style component gets one
   destructureInSignature report, with a fix, exactly when the scope has a props
   binding with at most one reference; with destructureInSignature ignore or mode
   never no handler ever sends a destructureInSignature report. *)
C6_SignatureReport ==
  /\ ( /\ configuration = "always" /\ destructureInSignature = "always"
       /\ DestructuresProps /\ DirectlyInFunctionComponent )
     => /\ CountKey("destructureInSignature") =
             (IF ev.propsRefs.bound /\ ev.propsRefs.length <= 1 THEN 1 ELSE 0)
        /\ \A i \in WithKey("destructureInSignature") :
             emitted[i].fix.attached /\ emitted[i].node = NodeRef(ev.id)
  /\ (configuration = "never" \/ destructureInSignature = "ignore")
     => CountKey("destructureInSignature") = 0

(* props is referenced a second time in the scope: nothing is reported *)
C6_Witness ==
  /\ configuration = "always" /\ destructureInSignature = "always"
  /\ DestructuresProps /\ DirectlyInFunctionComponent
  /\ ev.propsRefs.bound /\ ev.propsRefs.length = 2
  /\ emitted = <<>>

(* the reports of the context-identifier check of the last member access *)
ContextCheckReports ==
  {i \in WithKey(NoKey) : emitted[i].node = NodeRef(ev.id)
                           /\ emitted[i].type = ev.node.object.name}

(* some open function or class on the scope chain of the current position is held
   as a component *)
ComponentOnScopeChain ==
  \E i \in 1..Len(ancestors) : IsScope(ancestors[i]) /\ ancestors[i].comp

(* C7 as stated: hook available, mode always: once a declarator binding foo to a
   useContext(...) call inside a function-style component has been visited, every
   later member access foo.m that is no assignment target gets one report of the
   context-identifier check; an access visited before gets none. *)
C7_Original ==
  (hasHooks /\ configuration = "always" /\ OnIdentifier)
  => /\ (ev.node.object.name \in declared /\ ~ev.node.lhs)
          => Cardinality(ContextCheckReports) = 1
     /\ ev.node.object.name \notin declared
          => Cardinality(ContextCheckReports) = 0

(* C7 amended: the later access is reported when, in addition, the scope chain of
   the access holds a tracked component. *)
C7_ReportedAfterDeclarator ==
  (hasHooks /\ configuration = "always" /\ OnIdentifier)
  => /\ (ev.node.object.name \in declared /\ ~ev.node.lhs /\ ComponentOnScopeChain)
          => Cardinality(ContextCheckReports) = 1
     /\ ev.node.object.name \notin declared
          => Cardinality(ContextCheckReports) = 0

(* foo = useContext(...) was visited in the component, and foo.m is visited later
   in that component: one report *)
C7_Witness ==
  /\ hasHooks /\ configuration = "always"
  /\ OnIdentifier /\ ~ev.node.lhs
  /\ ev.node.object.name \in declared
  /\ DirectlyInFunctionComponent
  /\ Cardinality(ContextCheckReports) = 1

(* the last event entered a function the registry holds as a component *)
EnteredComponent == ev.kind = "enter" /\ ev.node.comp
ParamIsPattern(k) ==
  Len(ev.node.params) >= k /\ ev.node.params[k].type = "ObjectPattern"

(* C8 as stated: under mode never, entering a registered component whose first
   parameter is an object pattern gets exactly one noDestructPropsInSFCArg report,
   located at the parameter; under mode always, or for a function that is not
   registered, there is none. *)
C8_Original ==
  ev.kind = "enter"
  => IF configuration = "never" /\ ev.node.comp /\ ParamIsPattern(1)
     THEN /\ CountKey("noDestructPropsInSFCArg") = 1
          /\ \A i \in WithKey("noDestructPropsInSFCArg") :
               emitted[i].node = ParamRef(ev.id, 1)
     ELSE CountKey("noDestructPropsInSFCArg") = 0

(* C8 amended: the report is located at the function node. *)
C8_ReportAtFunction ==
  ev.kind = "enter"
  => IF configuration = "never" /\ ev.node.comp /\ ParamIsPattern(1)
     THEN /\ CountKey("noDestructPropsInSFCArg") = 1
          /\ \A i \in WithKey("noDestructPropsInSFCArg") :
               emitted[i].node = NodeRef(ev.id)
     ELSE CountKey("noDestructPropsInSFCArg") = 0

(* a component with a destructured first parameter was entered under mode never *)
C8_Witness ==
  /\ configuration = "never"
  /\ EnteredComponent /\ ParamIsPattern(1)
  /\ emitted = <<Report("noDestructPropsInSFCArg", NodeRef(ev.id), Absent, NoFix)>>

(* C9: under mode never, entering a registered component whose second parameter is
   an object pattern gets a noDestructContextInSFCArg report, whatever the first
   parameter is. *)
C9_ContextArgReported ==
  (configuration = "never" /\ EnteredComponent /\ ParamIsPattern(2))
  => CountKey("noDestructContextInSFCArg") = 1

(* C10 as stated: under mode always, a member access that is no assignment target
   and whose object name is in the context identifier set is reported, whether or
   not the scope-chain walk finds a tracked component. *)
C10_Original ==
  ( /\ configuration = "always"
    /\ OnIdentifier /\ ~ev.node.lhs
    /\ ev.node.object.name \in contextSet )
  => Cardinality(ContextCheckReports) = 1

(* C10 amended: it is reported exactly when the scope-chain walk finds a tracked
   component. *)
C10_ReportedIffWalkFinds ==
  ( /\ configuration = "always"
    /\ OnIdentifier /\ ~ev.node.lhs
    /\ ev.node.object.name \in contextSet )
  => Cardinality(ContextCheckReports) = (IF ComponentOnScopeChain THEN 1 ELSE 0)

(* the name is in the set, but the access lies in a function outside every
   component: no report *)
C10_Witness ==
  /\ configuration = "always"
  /\ OnIdentifier /\ ~ev.node.lhs
  /\ ev.node.object.name \in contextSet
  /\ ancestors # <<>> /\ ~ComponentOnScopeChain
  /\ emitted = <<>>

(* the last event is a declarator whose initialiser is a useContext(...) call *)
InitIsContextCall ==
  /\ IsDeclarator
  /\ ev.node.init.type = "CallExpression" /\ ev.node.init.callee = "useContext"

(* C11: when the framework version has no context hook, the context identifier set
   is empty in every state of the traversal and no handler call sends a report of
   the two context checks: neither the one for {...} = useContext(...) nor the one
   for a member access through a recorded name. *)
C11_NoHookNoContext ==
  ~hasHooks => (contextSet = {} /\ CountKey(NoKey) = 0)

(* without the hook, foo = useContext(...) was visited directly inside a
   function-style component and nothing was recorded *)
C11_Witness ==
  /\ ~hasHooks
  /\ InitIsContextCall /\ ev.node.id.type = "Identifier"
  /\ DirectlyInFunctionComponent
  /\ contextSet = {} /\ emitted = <<>>

MustNeverKeys == {"noDestructPropsInSFCArg", "noDestructContextInSFCArg", "noDestructAssignment"}

(* C12: under mode never no member access sends any report, whatever the scope
   stack and the context identifier set hold; under mode always no handler call
   sends a report with one of the keys noDestructPropsInSFCArg,
   noDestructContextInSFCArg, noDestructAssignment, and no declarator sends the
   report of the destructured useContext(...) call. *)
C12_ModeSeparatesReports ==
  /\ (configuration = "never" /\ IsMember) => emitted = <<>>
  /\ configuration = "always"
       => /\ \A k \in MustNeverKeys : CountKey(k) = 0
          /\ IsDeclarator => CountKey(NoKey) = 0

(* under mode never, an access through a recorded name that is also the props
   name, in the component, is left alone *)
C12_Witness ==
  /\ configuration = "never"
  /\ OnIdentifier /\ ~ev.node.lhs
  /\ ev.node.object.name \in contextSet
  /\ ev.node.object.name = propsName(queue)
  /\ DirectlyInFunctionComponent
  /\ emitted = <<>>

(* the last event is a declarator {...} = id for an identifier id *)
DestructuresIdentifier ==
  /\ IsDeclarator
  /\ ev.node.id.type = "ObjectPattern"
  /\ ev.node.init.type = "Identifier"

(* C13: under mode never, a declarator {...} = id gets one noDestructAssignment
   report, with type props, exactly when it lies directly inside a function-style
   component and id is the name props; any other id gets none, also when id is the
   current propsName(), and {...} = props outside a function-style component gets
   none. *)
C13_LiteralPropsOnly ==
  (configuration = "never" /\ DestructuresIdentifier)
  => IF DirectlyInFunctionComponent /\ ev.node.init.name = "props"
     THEN emitted = <<Report("noDestructAssignment", NodeRef(ev.id), "props", NoFix)>>
     ELSE emitted = <<>>

(* the props parameter is named foo and {...} = foo is visited in the component:
   no report *)
C13_Witness ==
  /\ configuration = "never"
  /\ DestructuresIdentifier /\ DirectlyInFunctionComponent
  /\ propsName(queue) = "foo" /\ ev.node.init.name = "foo"
  /\ emitted = <<>>

(* the last event is a declarator {...} = this.props, this.context or this.state *)
DestructuresThisMember ==
  /\ IsDeclarator
  /\ ev.node.id.type = "ObjectPattern"
  /\ ev.node.init.type = "MemberExpression"
  /\ ev.node.init.objectType = "ThisExpression"
  /\ ev.node.init.property \in {"props", "context", "state"}

(* C14: under mode never, a declarator {...} = this.props, this.context or
   this.state inside a class-style component gets one noDestructAssignment report
   with that type, unless ignoreClassFields is set and the declarator lies in a class
   field, and then it gets no report. *)
C14_ClassFieldIgnored ==
  (configuration = "never" /\ DestructuresThisMember /\ InClassComponent)
  => IF ignoreClassFields /\ InClassField
     THEN emitted = <<>>
     ELSE emitted = <<Report("noDestructAssignment", NodeRef(ev.id),
                             ev.node.init.property, NoFix)>>

(* the edits of the fixes of the destructureInSignature reports of the last call *)
SignatureEdits == {emitted[i].fix.edits : i \in WithKey("destructureInSignature")}

(* C15: the fix of a destructureInSignature report returns exactly two edits: the
   replacement of the range from the start of the first parameter of the component
   to the start of its type annotation, or to its end when it has none, by the
   source text of the declarator's pattern, and the removal of the declaration
   statement; for a component without a first parameter it returns no edit. *)
C15_FixEdits ==
  /\ \A i \in WithKey("destructureInSignature") : emitted[i].fix.attached
  /\ \A e \in SignatureEdits :
       IF Top.params = <<>> THEN e = <<>>
       ELSE /\ Len(e) = 2
            /\ e[1].op = "replaceTextRange"
            /\ e[1].range[1] = [fn |-> Len(ancestors), at |-> "param.range[0]"]
            /\ e[1].range[2] =
                 [fn |-> Len(ancestors),
                  at |-> IF ev.param.typeAnnotation THEN "param.typeAnnotation.range[0]"
                         ELSE "param.range[1]"]
            /\ e[1].text = IdOf(NodeRef(ev.id))
            /\ e[2].op = "remove"
            /\ e[2].target = ParentOf(NodeRef(ev.id))

(* the first parameter has a type annotation: the replaced range ends where the
   annotation starts *)
C15_Witness ==
  /\ CountKey("destructureInSignature") = 1
  /\ ev.param.present /\ ev.param.typeAnnotation
  /\ \E e \in SignatureEdits :
       Len(e) = 2 /\ e[1].range[2].at = "param.typeAnnotation.range[0]"

(* C16: every report a handler sends carries a message key of the catalog
   messages, the reports for an access through a recorded context identifier and
   for {...} = useContext(...) included. *)
C16_KeyFromCatalog ==
  \A i \in 1..Len(emitted) : emitted[i].messageId \in messages

(* C17: the exit of a function removes a frame exactly when that function pushed
   one at its entry: the exit of a function that was not tracked at its entry
   leaves the stack as it is, and the exit of one that was tracked removes one
   frame, whatever the registry answers at the exit. *)
C17_ExitPopsOwnFrame ==
  ev.kind = "exit"
  => Len(queue) = ev.before - (IF ev.node.tracked THEN 1 ELSE 0)

(* C18: the context identifier set only grows, and the only step that changes it is
   the visit of a declarator that binds a plain identifier to a useContext(...)
   call directly inside a function-style component, with the hook available, which
   adds that identifier; no function entry or exit and no other event changes it. *)
C18_ContextSetOnlyGrows ==
  [][ /\ contextSet \subseteq contextSet'
      /\ contextSet' # contextSet
           => /\ hasHooks
              /\ ev'.kind = "declarator"
              /\ ev'.node.id.type = "Identifier"
              /\ ev'.node.init.type = "CallExpression"
              /\ ev'.node.init.callee = "useContext"
              /\ DirectlyInFunctionComponent
              /\ contextSet' = contextSet \cup {ev'.node.id.name}
      /\ ev'.kind \in {"enter", "exit"} => contextSet' = contextSet ]_vars

(* a name recorded in an earlier component is a member while a later component,
   entered at the top level, is open *)
C18_Witness ==
  /\ contextSet = {"foo"}
  /\ ev.kind = "enter" /\ ev.node.comp
  /\ Len(ancestors) = 1

(* the member-access checks whose conditions hold for the last member access *)
PropsCheckHolds ==
  /\ ComponentOnScopeChain /\ OnIdentifier /\ ~ev.node.lhs
  /\ ev.node.object.name \in {propsName(queue), contextName(queue)}
ContextCheckHolds ==
  /\ ComponentOnScopeChain /\ OnIdentifier /\ ~ev.node.lhs
  /\ ev.node.object.name \in contextSet
ClassCheckHolds ==
  /\ ComponentOnScopeChain /\ OnThisMember /\ ~ev.node.lhs
  /\ ~(ignoreClassFields /\ InClassField)
ChecksHolding ==
  (IF PropsCheckHolds THEN 1 ELSE 0) + (IF ContextCheckHolds THEN 1 ELSE 0)
  + (IF ClassCheckHolds THEN 1 ELSE 0)

(* C19: under mode always a member access gets as many reports as there are
   checks, among the props/context name check, the context identifier check and
   the class check, whose conditions hold for it; an access whose object name is
   both the current propsName() or contextName() and a recorded context identifier
   gets two reports. *)
C19_NoDeduplication ==
  (configuration = "always" /\ IsMember)
  => /\ Len(emitted) = ChecksHolding
     /\ (PropsCheckHolds /\ ContextCheckHolds) => Len(emitted) = 2

(* foo is the props parameter and a recorded context identifier: foo.m gets the
   keyed report and the report of the context identifier check *)
C19_Witness ==
  /\ configuration = "always"
  /\ PropsCheckHolds /\ ContextCheckHolds
  /\ ev.node.object.name = propsName(queue)
  /\ Len(emitted) = 2
  /\ emitted[1].messageId = "useDestructAssignment" /\ emitted[2].messageId = NoKey

(* C20: the fix of a destructureInSignature report for {...} = props replaces a
   parameter only if that parameter, the first one of the component, is the
   identifier props that the declarator destructures. *)
C20_FixReplacesPropsParam ==
  \A e \in SignatureEdits : e # <<>> => ev.param.name = "props"

====
